---- MODULE Spec2Model ----
(***************************************************************************)
(* A model of the backup pipeline of backup.py / notifier.py / config.py:  *)
(* Backuper.__init__ (settings file + environment overrides), Backuper.Run *)
(* (dump -> archive -> upload -> notify, with the except/finally clauses), *)
(* the Telegram notifier and the final cleanup of the temp workspace.      *)
(*                                                                         *)
(* Python exceptions are modelled by the variable `pending`: "Exception"   *)
(* is any subclass of Exception, "SystemExit" is what sys.exit(1) raises   *)
(* (a BaseException, which `except Exception` does not catch).             *)
(* Failures of the operating system and of the external services (open,    *)
(* write, remove, mysqldump, boto3, requests) are nondeterministic inputs  *)
(* of the step that makes the call.                                        *)
(***************************************************************************)
EXTENDS Integers, Sequences, FiniteSets, TLC

\* ------------------------------------------------------------------ bounds
MaxTargets == 2

\* ------------------------------------------------------- python sentinels
Absent == "<unset>"          \* os.environ.get(...) returning None
None == "<None>"             \* the python value None

\* ------------------------------------------------------------ file names
CRED_FILE == "mysql_auth.cnf"
DUMP_FILE == "dump.sql"
ARCHIVE_NAME == "backup_TS.tar.gz"
STALE_FILE == "stale.tmp"

TEMP_DIR == "/tmp/backup"
HOST_DATA == "/host_data"

\* MOUNT_ROOT as a sequence of characters
MOUNT_ROOT == <<"/", "m">>

\* ------------------------------------------------------------ environment
OverrideVars == {"S3_ENDPOINT", "S3_BUCKET_NAME", "S3_REGION", "TELEGRAM_CHAT_ID", "DB_HOST"}
EnvVars == OverrideVars \cup {"TELEGRAM_BOT_TOKEN"}

\* A value of an environment variable: unset (0), set to the empty string
\* (1), or set to a non-empty string (2).
EnvValue(v, code) == IF code = 0 THEN Absent ELSE IF code = 1 THEN "" ELSE "env:" \o v

AllEnvirons == {[v \in EnvVars |-> EnvValue(v, c[v])] : c \in [EnvVars -> 0..2]}

\* The environments of the pipeline specification: only the bucket override
\* and the bot token vary.
FewEnvirons ==
  {e \in AllEnvirons :
     /\ \A v \in OverrideVars \ {"S3_BUCKET_NAME"} : e[v] = Absent
     /\ e["S3_BUCKET_NAME"] # ""}

\* python truthiness of os.environ.get(v)
Truthy(x) == x # Absent /\ x # ""

\* --------------------------------------------------------- settings file
\* Target strings are sequences of characters, so that lstrip acts on them.
TargetNames == {<<"a">>, <<".", "/", "a">>, <<".", "b">>}

RECURSIVE SeqsUpTo(_, _)
SeqsUpTo(S, n) ==
  IF n = 0 THEN {<<>>}
  ELSE LET shorter == SeqsUpTo(S, n - 1)
       IN shorter \cup {Append(s, x) : s \in {t \in shorter : Len(t) = n - 1}, x \in S}

\* config.Config(**yaml.safe_load(f)).backup for a well-formed file
FileConfig(dbOn, s3On, tgOn, targets) ==
  [s3 |-> [endpoint |-> "file:S3_ENDPOINT", bucket_name |-> "file:S3_BUCKET_NAME",
           region |-> "file:S3_REGION", enabled |-> s3On],
   database |-> [enabled |-> dbOn, container_name |-> "file:DB_HOST",
                 db_user |-> "file:user", dump_filename |-> DUMP_FILE],
   telegram |-> [enabled |-> tgOn, chat_id |-> "file:TELEGRAM_CHAT_ID"],
   targets |-> targets]

ValidConfigs ==
  {FileConfig(d, s, t, ts) : d \in BOOLEAN, s \in BOOLEAN, t \in BOOLEAN,
                             ts \in SeqsUpTo(TargetNames, MaxTargets)}

\* The file at CONFIG_PATH: absent, not valid for the schema, or valid.
ConfigFiles ==
  {[status |-> "missing", content |-> <<>>], [status |-> "invalid", content |-> <<>>]}
  \cup {[status |-> "ok", content |-> <<c>>] : c \in ValidConfigs}

\* str.lstrip(chars): drop leading characters that belong to chars
RECURSIVE Lstrip(_, _)
Lstrip(s, chars) ==
  IF s # <<>> /\ Head(s) \in chars THEN Lstrip(Tail(s), chars) ELSE s

\* os.path.join(root, rel) for a root without trailing separator
PathJoin(root, rel) ==
  IF rel # <<>> /\ Head(rel) = "/" THEN rel ELSE root \o <<"/">> \o rel

\* full_path of _create_archive
FullPath(target) == PathJoin(MOUNT_ROOT, Lstrip(target, {".", "/"}))

MountPaths == {PathJoin(MOUNT_ROOT, <<"a">>), PathJoin(MOUNT_ROOT, <<"b">>)}

VARIABLES
  pc,            \* position of the process in main()/Run
  environ,       \* os.environ (the recognised variables)
  configFile,    \* the file at CONFIG_PATH
  config,        \* Backuper._config: <<>> until constructed, then <<BackupConfig>>
  token,         \* TelegramNotifier._token
  mountFs,       \* paths that exist under the mount root
  tempDirExists, \* os.path.exists(TEMP_DIR)
  tempFiles,     \* os.listdir(TEMP_DIR)
  dump_file_path,\* local of Run
  archive_file,  \* local of Run: <<>> or <<File>>
  pending,       \* exception in flight: "none", "Exception", "SystemExit"
  errText,       \* str(e) of the exception in flight
  failed,        \* history: the step of Run that failed, or "none"
  trace,         \* history: the steps and external calls made, in order
  posts,         \* history: the requests.post calls made
  uploads,       \* history: the s3.upload_file calls made
  rmFailed,      \* history: the entries whose os.remove raised in _cleanup
  removed,       \* history: the paths os.remove deleted, as [dir, name]
  exitStatus     \* process exit status, -1 while running

vars == <<pc, environ, configFile, config, token, mountFs, tempDirExists,
          tempFiles, dump_file_path, archive_file, pending, errText, failed,
          trace, posts, uploads, rmFailed, removed, exitStatus>>

Cfg == config[1]

\* ------------------------------------------------------------------- Init
InitCommon ==
  /\ pc = "init"
  /\ config = <<>>
  /\ token = Absent
  /\ dump_file_path = None
  /\ archive_file = <<>>
  /\ pending = "none"
  /\ errText = ""
  /\ failed = "none"
  /\ trace = <<>>
  /\ posts = <<>>
  /\ uploads = <<>>
  /\ rmFailed = {}
  /\ removed = {}
  /\ exitStatus = -1

\* The pipeline specification: every settings file, few environments.
Init ==
  /\ InitCommon
  /\ configFile \in ConfigFiles
  /\ environ \in FewEnvirons
  /\ mountFs \in SUBSET MountPaths
  /\ \/ tempDirExists = FALSE /\ tempFiles = {}
     \/ tempDirExists = TRUE /\ tempFiles \in {{}, {STALE_FILE}}

\* ----------------------------------------------------- Backuper.__init__
\* `if os.environ.get(V): field = os.environ.get(V)`
\* Variant: `if os.environ.get(V) is not None`, any present value overrides.
OverrideIfPresent(fileValue, envValue) == IF envValue # Absent THEN envValue ELSE fileValue

Override(fileValue, envValue) == IF Truthy(envValue) THEN envValue ELSE fileValue

ApplyOverrides(c, env) ==
  [c EXCEPT !.s3.endpoint = Override(@, env["S3_ENDPOINT"]),
            !.s3.bucket_name = Override(@, env["S3_BUCKET_NAME"]),
            !.s3.region = Override(@, env["S3_REGION"]),
            !.telegram.chat_id = Override(@, env["TELEGRAM_CHAT_ID"]),
            !.database.container_name = Override(@, env["DB_HOST"])]

\* Process exit status for the exception that reaches the top of main():
\* none -> 0, SystemExit(1) -> 1, an uncaught Exception -> 1 (traceback).
ExitCode(exc) == IF exc = "none" THEN 0 ELSE 1

\* Variant: _load_config ends with sys.exit(0) when the file is missing.
ConfigFailureStatusZero(status) == IF status = "missing" THEN 0 ELSE 1

\* Exit status when the settings cannot be loaded: sys.exit(1) for a missing
\* file, an uncaught yaml/pydantic exception for an invalid one.
ConfigFailureStatus(status) ==
  ExitCode(IF status = "missing" THEN "SystemExit" ELSE "Exception")

\* main(): backuper = Backuper(); a missing file is sys.exit(1) in
\* _load_config, an invalid one an uncaught exception of yaml/pydantic.
Construct ==
  /\ pc = "init"
  /\ IF configFile.status = "ok"
       THEN /\ config' = <<ApplyOverrides(configFile.content[1], environ)>>
            /\ token' = environ["TELEGRAM_BOT_TOKEN"]
            /\ pc' = "makedirs"
            /\ UNCHANGED <<pending, errText, exitStatus>>
       ELSE /\ pending' = (IF configFile.status = "missing" THEN "SystemExit" ELSE "Exception")
            /\ errText' = configFile.status
            /\ exitStatus' = ConfigFailureStatus(configFile.status)
            /\ pc' = "exited"
            /\ UNCHANGED <<config, token>>
  /\ UNCHANGED <<environ, configFile, mountFs, tempDirExists, tempFiles,
                 dump_file_path, archive_file, failed, trace, posts, uploads, rmFailed, removed>>

\* ------------------------------------------------------------ Backuper.Run
\* Where control goes when a statement of Run's try block ends with the
\* exception exc (or "none"): `except Exception` catches Exception only, so a
\* SystemExit goes straight to the finally clause.
\* Variant: a SystemExit skips the cleanup (cleanup placed after the try
\* statement instead of in its finally clause).
AfterStageNoFinally(exc, next) ==
  IF exc = "none" THEN next
  ELSE IF exc = "Exception" THEN "except"
  ELSE "return"

\* Variant: a failure of the dump stage is swallowed and the run goes on.
AfterStageDumpSwallowed(exc, next) ==
  IF exc = "none" \/ next = "archive" THEN next
  ELSE IF exc = "Exception" THEN "except"
  ELSE "finally"

\* Variant: a failed upload is tried again.
AfterStageRetryUpload(exc, next) ==
  IF exc = "none" THEN next
  ELSE IF next = "send_success" THEN "upload"
  ELSE IF exc = "Exception" THEN "except"
  ELSE "finally"

AfterStage(exc, next) ==
  IF exc = "none" THEN next
  ELSE IF exc = "Exception" THEN "except"
  ELSE "finally"

\* os.makedirs(self._temp_dir, exist_ok=True); creating the directory can fail.
MakeTempDir ==
  /\ pc = "makedirs"
  /\ \E ok \in BOOLEAN :
       LET exc == IF tempDirExists \/ ok THEN "none" ELSE "Exception"
       IN /\ tempDirExists' = (exc = "none")
          /\ pending' = exc
          /\ errText' = (IF exc = "none" THEN errText ELSE "OSError: makedirs")
          /\ failed' = (IF exc = "none" THEN failed ELSE "makedirs")
          /\ pc' = AfterStage(exc, "dump")
  /\ trace' = Append(trace, "makedirs")
  /\ UNCHANGED <<environ, configFile, config, token, mountFs, tempFiles,
                 dump_file_path, archive_file, posts, uploads, rmFailed, removed, exitStatus>>

\* ------------------------------------------------- Backuper._create_db_dump
\* What can happen inside the stage, in the order of its statements:
\*   cred_open_fail   open(auth_config_path, "w") raises          (line 82)
\*   cred_write_fail  writing/closing the credential file raises  (82-86)
\*   dump_open_fail   open(dump_file, "w") raises                 (line 97)
\*   cmd_not_started  subprocess.run raises OSError               (line 98)
\*   cmd_nonzero      subprocess.run raises CalledProcessError    (line 98)
\*   ok               the command exits 0
DumpOutcomes ==
  {"cred_open_fail", "cred_write_fail", "dump_open_fail", "cmd_not_started",
   "cmd_nonzero", "ok"}

\* The outcomes that happen inside the try block of lines 96-107, whose
\* finally clause removes the credential file.
DumpInTry(o) == o \in {"dump_open_fail", "cmd_not_started", "cmd_nonzero", "ok"}

\* subprocess.run was called
DumpCmdInvoked(o) == o \in {"cmd_not_started", "cmd_nonzero", "ok"}

\* The exception the statements before the finally clause end with:
\* CalledProcessError is turned into sys.exit(1), everything else propagates.
DumpException(o) ==
  IF o = "ok" THEN "none"
  ELSE IF o = "cmd_nonzero" THEN "SystemExit"
  ELSE "Exception"

DumpErrText(o) ==
  CASE o = "cred_open_fail" -> "OSError: open mysql_auth.cnf"
    [] o = "cred_write_fail" -> "OSError: write mysql_auth.cnf"
    [] o = "dump_open_fail" -> "OSError: open dump.sql"
    [] o = "cmd_not_started" -> "FileNotFoundError: mysqldump"
    [] o = "cmd_nonzero" -> "CalledProcessError: mysqldump"
    [] OTHER -> ""

\* os.path.join(self._temp_dir, name): the path handed to os.remove
\* Variant: the path is built from the mount root.
RemovePathUnderMount(name) == [dir |-> HOST_DATA, name |-> name]

RemovePath(name) == [dir |-> TEMP_DIR, name |-> name]

\* Variant: the stage runs whatever database.enabled says.
DumpNeverSkipped == FALSE

\* `if not db_config.enabled: return None`
DumpSkipped == ~Cfg.database.enabled

CreateDbDump ==
  /\ pc = "dump"
  /\ IF DumpSkipped
       THEN /\ dump_file_path' = None
            /\ pc' = AfterStage("none", "archive")
            /\ trace' = Append(trace, "dump")
            /\ UNCHANGED <<tempDirExists, tempFiles, pending, errText, failed, removed>>
       ELSE \E o \in DumpOutcomes, rmOk \in BOOLEAN :
              LET written == tempFiles
                    \cup (IF o # "cred_open_fail" THEN {CRED_FILE} ELSE {})
                    \cup (IF DumpCmdInvoked(o) THEN {Cfg.database.dump_filename} ELSE {})
                  \* finally: if os.path.exists(auth_config_path): os.remove(...)
                  rmRaises == DumpInTry(o) /\ ~rmOk
                  exc == IF rmRaises THEN "Exception" ELSE DumpException(o)
              IN /\ tempDirExists' = TRUE
                 /\ tempFiles' = (IF DumpInTry(o) /\ rmOk THEN written \ {CRED_FILE} ELSE written)
                 /\ removed' = (IF DumpInTry(o) /\ rmOk THEN removed \cup {RemovePath(CRED_FILE)}
                                ELSE removed)
                 /\ dump_file_path' = (IF exc = "none" THEN Cfg.database.dump_filename ELSE None)
                 /\ pending' = exc
                 /\ errText' = (IF rmRaises THEN "OSError: remove mysql_auth.cnf" ELSE DumpErrText(o))
                 /\ failed' = (IF exc = "none" THEN failed ELSE "dump")
                 /\ pc' = AfterStage(exc, "archive")
                 /\ trace' = (IF DumpCmdInvoked(o) THEN trace \o <<"dump", "mysqldump">>
                              ELSE Append(trace, "dump"))
  /\ UNCHANGED <<environ, configFile, config, token, mountFs, archive_file,
                 posts, uploads, rmFailed, exitStatus>>

\* ------------------------------------------------- Backuper._create_archive
\* `if os.path.exists(full_path)` of the loop over the targets
\* Variant: the loop adds every target without the os.path.exists test.
TargetAddedUnchecked(target) == TRUE

TargetAdded(target) == FullPath(target) \in mountFs

\* tar.add(full_path, ...) raises when full_path does not exist
RECURSIVE AddRaises(_)
AddRaises(targets) ==
  IF targets = <<>> THEN FALSE
  ELSE (TargetAdded(Head(targets)) /\ FullPath(Head(targets)) \notin mountFs)
       \/ AddRaises(Tail(targets))

\* The entry names the loop adds, in order (arcname=target)
RECURSIVE AddedTargets(_)
AddedTargets(targets) ==
  IF targets = <<>> THEN <<>>
  ELSE (IF TargetAdded(Head(targets)) THEN <<Head(targets)>> ELSE <<>>)
       \o AddedTargets(Tail(targets))

\* I/O outcomes of writing the archive: tarfile.open raising, a write
\* raising after the file was created, or success.
ArchiveOutcomes == {"open_fail", "write_fail", "ok"}

\* Variant: the stage ends a failed write with sys.exit(1), as the dump and
\* upload stages do.
ArchiveExits(o) == IF o = "ok" THEN "none" ELSE "SystemExit"

\* The stage has no handler of its own: an I/O error propagates.
ArchiveException(o) == IF o = "ok" THEN "none" ELSE "Exception"

CreateArchive ==
  /\ pc = "archive"
  /\ \E o \in ArchiveOutcomes :
       LET missing == AddRaises(Cfg.targets)
           exc == IF o = "ok" /\ missing THEN "Exception" ELSE ArchiveException(o)
       IN /\ tempFiles' = (IF o = "open_fail" THEN tempFiles ELSE tempFiles \cup {ARCHIVE_NAME})
          /\ archive_file' =
               (IF exc = "none"
                  THEN <<[name |-> ARCHIVE_NAME,
                          has_dump |-> (dump_file_path # None),
                          members |-> AddedTargets(Cfg.targets)]>>
                  ELSE <<>>)
          /\ pending' = exc
          /\ errText' = (IF exc = "none" THEN errText
                         ELSE IF o = "ok" THEN "FileNotFoundError: target"
                         ELSE "OSError: archive")
          /\ failed' = (IF exc = "none" THEN failed ELSE "archive")
          /\ pc' = AfterStage(exc, "upload")
  /\ trace' = Append(trace, "archive")
  /\ UNCHANGED <<environ, configFile, config, token, mountFs, tempDirExists,
                 dump_file_path, posts, uploads, rmFailed, removed, exitStatus>>

\* --------------------------------------------------- Backuper._upload_to_s3
\* client_fail: session.client(...) raises (it is outside the try block);
\* transfer_fail: s3.upload_file raises, which the stage turns into sys.exit(1).
UploadOutcomes == {"client_fail", "transfer_fail", "ok"}

UploadException(o) ==
  IF o = "ok" THEN "none"
  ELSE IF o = "transfer_fail" THEN "SystemExit"
  ELSE "Exception"

\* Variant: the stage uploads whatever s3.enabled says.
UploadNeverSkipped == FALSE

\* `if not s3_config.enabled: ... return`
UploadSkipped == ~Cfg.s3.enabled

UploadToS3 ==
  /\ pc = "upload"
  /\ IF UploadSkipped
       THEN /\ pc' = AfterStage("none", "send_success")
            /\ trace' = Append(trace, "upload")
            /\ UNCHANGED <<uploads, pending, errText, failed>>
       ELSE \E o \in UploadOutcomes :
              LET exc == UploadException(o)
              IN /\ uploads' = (IF o = "client_fail" THEN uploads
                                ELSE Append(uploads, [bucket |-> Cfg.s3.bucket_name,
                                                      key |-> archive_file[1].name,
                                                      ok |-> (o = "ok")]))
                 /\ pending' = exc
                 /\ errText' = (CASE o = "client_fail" -> "ValueError: client"
                                  [] o = "transfer_fail" -> "S3UploadFailedError"
                                  [] OTHER -> errText)
                 /\ failed' = (IF exc = "none" THEN failed ELSE "upload")
                 /\ pc' = AfterStage(exc, "send_success")
                 /\ trace' = (IF o = "client_fail" THEN trace \o <<"upload", "s3_client">>
                              ELSE trace \o <<"upload", "s3_client", "upload_file">>)
  /\ UNCHANGED <<environ, configFile, config, token, mountFs, tempDirExists,
                 tempFiles, dump_file_path, archive_file, posts, rmFailed, removed, exitStatus>>

\* ---------------------------------------------------------- TelegramNotifier
\* _should_send: enabled in the settings and a non-empty token
\* Variant: _should_send without its two tests.
ShouldSendAlways == TRUE

ShouldSend == Cfg.telegram.enabled /\ Truthy(token)

\* _send: whether the method ends by raising when requests.post or
\* raise_for_status fails; its `except Exception` swallows the failure.
\* Variant: _send without its try/except, a failed delivery propagates.
SendRaisesUnguarded(delivered) == ~delivered

SendRaises(delivered) == FALSE

\* The requests.post call of _send, with the outcome of the delivery
Post(kind, text, delivered) ==
  [chat_id |-> Cfg.telegram.chat_id, kind |-> kind, text |-> text, ok |-> delivered]

\* self._notifier.send_success(...), the last statement of Run's try block
SendSuccess ==
  /\ pc = "send_success"
  /\ IF ShouldSend
       THEN \E delivered \in BOOLEAN :
              LET exc == IF SendRaises(delivered) THEN "Exception" ELSE "none"
              IN /\ posts' = Append(posts, Post("success", archive_file[1].name, delivered))
                 /\ trace' = trace \o <<"send_success", "post">>
                 /\ pending' = exc
                 /\ errText' = (IF exc = "none" THEN errText ELSE "RequestException")
                 /\ pc' = AfterStage(exc, "finally")
       ELSE /\ trace' = Append(trace, "send_success")
            /\ pc' = AfterStage("none", "finally")
            /\ UNCHANGED <<posts, pending, errText>>
  /\ UNCHANGED <<environ, configFile, config, token, mountFs, tempDirExists,
                 tempFiles, dump_file_path, archive_file, failed, uploads,
                 rmFailed, removed, exitStatus>>

\* The exception the handler of `except Exception` ends with: sys.exit(1)
\* Variant: the handler forgets sys.exit(1).
HandlerReturns == "none"

HandlerException == "SystemExit"

\* except Exception as e: print; self._notifier.send_error(str(e)); sys.exit(1)
HandleException ==
  /\ pc = "except"
  /\ IF ShouldSend
       THEN \E delivered \in BOOLEAN :
              /\ posts' = Append(posts, Post("error", errText, delivered))
              /\ trace' = trace \o <<"send_error", "post">>
              /\ pending' = (IF SendRaises(delivered) THEN "Exception" ELSE HandlerException)
       ELSE /\ trace' = Append(trace, "send_error")
            /\ pending' = HandlerException
            /\ UNCHANGED posts
  /\ pc' = "finally"
  /\ UNCHANGED <<environ, configFile, config, token, mountFs, tempDirExists,
                 tempFiles, dump_file_path, archive_file, errText, failed,
                 uploads, rmFailed, removed, exitStatus>>

\* --------------------------------------------------------- Backuper._cleanup
\* finally: self._cleanup(). Every entry of the directory is removed; an
\* os.remove that raises is swallowed (`except: pass`), so the entries of
\* `raising` (those whose removal failed) stay.
\* Variant: os.remove without the try/except around it.
CleanupRaisesUnguarded(raising) == raising # {}

\* Whether _cleanup ends by raising when the os.remove of the entries of
\* `raising` fails: the bare `except: pass` swallows each failure.
CleanupRaises(raising) == FALSE

Cleanup ==
  /\ pc = "finally"
  /\ IF tempDirExists
       THEN \E raising \in SUBSET tempFiles :
              IF CleanupRaises(raising)
                THEN \* the loop stops at the first entry that fails
                     /\ pending' = "Exception"
                     /\ rmFailed' = raising
                     /\ UNCHANGED <<tempFiles, removed>>
                ELSE /\ tempFiles' = tempFiles \ (tempFiles \ raising)
                     /\ removed' = removed \cup {RemovePath(f) : f \in tempFiles \ raising}
                     /\ rmFailed' = raising
                     /\ UNCHANGED pending
       ELSE UNCHANGED <<tempFiles, rmFailed, removed, pending>>
  /\ trace' = Append(trace, "cleanup")
  /\ pc' = "return"
  /\ UNCHANGED <<environ, configFile, config, token, mountFs, tempDirExists,
                 dump_file_path, archive_file, errText, failed, posts,
                 uploads, exitStatus>>

\* ------------------------------------------------------------------- main
\* After Run: print("Done.") and exit 0, or the exception in flight ends
\* the process.
Exit ==
  /\ pc = "return"
  /\ exitStatus' = ExitCode(pending)
  /\ pc' = "exited"
  /\ UNCHANGED <<environ, configFile, config, token, mountFs, tempDirExists,
                 tempFiles, dump_file_path, archive_file, pending, errText,
                 failed, trace, posts, uploads, rmFailed, removed>>

Next ==
  \/ Construct
  \/ MakeTempDir
  \/ CreateDbDump
  \/ CreateArchive
  \/ UploadToS3
  \/ SendSuccess
  \/ HandleException
  \/ Cleanup
  \/ Exit

Spec == Init /\ [][Next]_vars

\* The override specification: every environment, one settings file.
InitEnv ==
  /\ InitCommon
  /\ configFile = [status |-> "ok", content |-> <<FileConfig(TRUE, TRUE, TRUE, <<<<"a">>>>)>>]
  /\ environ \in AllEnvirons
  /\ mountFs = MountPaths
  /\ tempDirExists = FALSE
  /\ tempFiles = {}

SpecEnv == InitEnv /\ [][Next]_vars

\* ------------------------------------------------------------ type invariant
TypeOK ==
  /\ pc \in {"init", "makedirs", "dump", "archive", "upload", "send_success",
             "except", "finally", "return", "exited"}
  /\ pending \in {"none", "Exception", "SystemExit"}
  /\ failed \in {"none", "makedirs", "dump", "archive", "upload"}
  /\ exitStatus \in {-1, 0, 1}
  /\ tempFiles \subseteq {CRED_FILE, DUMP_FILE, ARCHIVE_NAME, STALE_FILE}
  /\ Len(config) <= 1
  /\ Len(archive_file) <= 1

\* ------------------------------------------------------------- properties
Count(e) == Cardinality({i \in DOMAIN trace : trace[i] = e})
Has(e) == \E i \in DOMAIN trace : trace[i] = e
Before(a, b) == \E i, j \in DOMAIN trace : i < j /\ trace[i] = a /\ trace[j] = b
RunStarted == trace # <<>>
RunOver == RunStarted /\ pc \in {"return", "exited"}

\* C1: in every run of Run the cleanup executes exactly once, after every
\* other step: while the run is in progress no cleanup has happened, and once
\* Run is over the trace holds exactly one cleanup, as its last entry.
CleanupOnceAndLast ==
  /\ (RunStarted /\ ~RunOver) => Count("cleanup") = 0
  /\ RunOver => (Count("cleanup") = 1 /\ trace[Len(trace)] = "cleanup")

\* C1 witness: a run in which a stage asked for process exit (sys.exit in the
\* dump stage) has ended with its cleanup done.
CleanupAfterSystemExit ==
  /\ pc = "exited"
  /\ failed = "dump"
  /\ errText = "CalledProcessError: mysqldump"
  /\ Count("cleanup") = 1

\* C2 (as stated): after every run the temp workspace is empty or absent.
WorkspaceEmptyAfterRun ==
  RunOver => (~tempDirExists \/ tempFiles = {})

\* C2 (amended): after every run the temp workspace is absent, or holds only
\* entries whose removal raised in _cleanup; it is empty when none raised.
WorkspaceHoldsOnlyUnremovable ==
  RunOver => (~tempDirExists \/ tempFiles = rmFailed)

\* C2 witness: a run that failed in the upload stage has ended, every file
\* the stages wrote is gone.
WorkspacePurgedAfterUploadFailure ==
  /\ pc = "exited"
  /\ failed = "upload"
  /\ Has("mysqldump")
  /\ rmFailed = {}
  /\ tempFiles = {}

\* C3 (as stated): when the dump command exits non-zero the run calls
\* send_error exactly once, with the dump error text, before cleanup, and
\* exits non-zero.
DumpFailureNotifiedOnce ==
  (RunOver /\ failed = "dump" /\ errText = "CalledProcessError: mysqldump")
    => /\ Count("send_error") = 1
       /\ Before("send_error", "cleanup")
       /\ (pc = "exited" => exitStatus # 0)

\* C4 (as stated): when the transfer call of the upload stage raises, the run
\* calls send_error before cleanup and exits non-zero.
UploadFailureNotified ==
  (RunOver /\ failed = "upload" /\ errText = "S3UploadFailedError")
    => /\ Has("send_error")
       /\ Before("send_error", "cleanup")
       /\ (pc = "exited" => exitStatus # 0)

\* C5: the exit status is 0 exactly when the dump, archive and upload stages
\* all completed without failure; it is non-zero when the settings file is
\* missing or invalid or when a stage failed.
ExitStatusReflectsStages ==
  pc = "exited" =>
    /\ exitStatus \in {0, 1}
    /\ exitStatus = 0 <=> (/\ configFile.status = "ok"
                           /\ Has("dump") /\ Has("archive") /\ Has("upload")
                           /\ failed = "none")
    /\ (configFile.status # "ok" \/ failed # "none") => exitStatus # 0

\* C5 witness: a run with database and storage enabled has exited 0.
ExitZeroAfterFullRun ==
  /\ pc = "exited"
  /\ exitStatus = 0
  /\ Has("mysqldump")
  /\ Has("upload_file")

\* C6: a failed delivery never changes the outcome. The step that makes the
\* notification call (send_success at the end of the try block, send_error in
\* the handler) leads to the same continuation, exception in flight, stage
\* history, workspace and uploads whether or not the message is delivered,
\* and the exit status of a finished run is the one its stages determine.
DeliveryFailureChangesNothing ==
  [][/\ (pc \in {"send_success", "except"}) =>
          /\ pc' = "finally"
          /\ pending' = (IF pc = "except" THEN "SystemExit" ELSE "none")
          /\ UNCHANGED <<failed, tempDirExists, tempFiles, uploads, rmFailed, removed,
                         dump_file_path, archive_file, errText, exitStatus>>
     /\ (pc' = "exited" /\ RunStarted) =>
          /\ exitStatus' = (IF failed = "none" THEN 0 ELSE 1)
          /\ Count("cleanup") = 1]_vars

\* C6 witness: the success message was not delivered and the run exited 0
\* after its cleanup.
UndeliveredSuccessExitZero ==
  /\ pc = "exited"
  /\ exitStatus = 0
  /\ Count("cleanup") = 1
  /\ \E i \in DOMAIN posts : posts[i].kind = "success" /\ ~posts[i].ok

\* C7 (as stated): once the dump stage has returned or raised, the
\* credential file is not present in the temp workspace. Stated for the runs
\* in which the os.remove of the stage's finally clause did not itself raise,
\* so that a violation is the stage never attempting the removal.
CredentialFileGoneAfterDump ==
  (Has("dump") /\ errText # "OSError: remove mysql_auth.cnf")
    => CRED_FILE \notin tempFiles

\* C8: after a stage failure no later stage is started, and no success
\* notification is sent in a run in which a stage failed.
NoStageAfterFailure ==
  /\ failed # "none" => (pc \notin {"dump", "archive", "upload", "send_success"}
                         /\ ~Has("send_success"))
  /\ failed = "makedirs" => (~Has("dump") /\ ~Has("archive") /\ ~Has("upload"))
  /\ failed = "dump" => (~Has("archive") /\ ~Has("upload") /\ ~Has("upload_file"))
  /\ failed = "archive" => (~Has("upload") /\ ~Has("upload_file"))

\* C8 witness: a run whose dump command failed has ended without archive,
\* upload or success notification.
DumpFailureEndedRun ==
  /\ pc = "exited"
  /\ failed = "dump"
  /\ Has("mysqldump")
  /\ ~Has("archive")

\* C9: the archive stage never fails because of a missing target: a failure
\* of the stage is an I/O failure; a created archive holds exactly the targets
\* whose resolved path exists, in order, under their configured names; and
\* the run goes on to the upload stage.
ExistingTarget(t) == FullPath(t) \in mountFs

ArchiveSkipsMissingTargets ==
  /\ failed = "archive" => errText = "OSError: archive"
  /\ archive_file # <<>> =>
       /\ archive_file[1].members = SelectSeq(Cfg.targets, ExistingTarget)
       /\ pc = "upload" \/ Has("upload")

\* C9 witness: one target missing, one present, the archive was created with
\* the present one only and the run exited 0 after the upload stage.
ArchivedWithMissingTarget ==
  /\ pc = "exited"
  /\ exitStatus = 0
  /\ Has("upload")
  /\ archive_file # <<>>
  /\ Len(archive_file[1].members) = 1
  /\ \E i \in DOMAIN Cfg.targets : ~ExistingTarget(Cfg.targets[i])

\* The setting each override variable replaces
ConfigField(c, v) ==
  CASE v = "S3_ENDPOINT" -> c.s3.endpoint
    [] v = "S3_BUCKET_NAME" -> c.s3.bucket_name
    [] v = "S3_REGION" -> c.s3.region
    [] v = "TELEGRAM_CHAT_ID" -> c.telegram.chat_id
    [] v = "DB_HOST" -> c.database.container_name

\* C10 (as stated): a present override variable replaces the file-derived
\* setting unconditionally, an absent one keeps it, and the upload targets the
\* resulting bucket.
PresentOverrideReplaces ==
  config # <<>> =>
    /\ \A v \in OverrideVars :
         ConfigField(Cfg, v) = (IF environ[v] # Absent THEN environ[v]
                                ELSE ConfigField(configFile.content[1], v))
    /\ \A i \in DOMAIN uploads :
         uploads[i].bucket = (IF environ["S3_BUCKET_NAME"] # Absent
                              THEN environ["S3_BUCKET_NAME"]
                              ELSE configFile.content[1].s3.bucket_name)

\* C10 (amended): an override variable present with a non-empty value
\* replaces the file-derived setting; absent or empty, the file-derived value
\* is kept; the upload targets the resulting bucket.
NonEmptyOverrideReplaces ==
  config # <<>> =>
    /\ \A v \in OverrideVars :
         ConfigField(Cfg, v) = (IF environ[v] \notin {Absent, ""} THEN environ[v]
                                ELSE ConfigField(configFile.content[1], v))
    /\ \A i \in DOMAIN uploads :
         uploads[i].bucket = (IF environ["S3_BUCKET_NAME"] \notin {Absent, ""}
                              THEN environ["S3_BUCKET_NAME"]
                              ELSE configFile.content[1].s3.bucket_name)

\* C10 witness: the upload went to the bucket of the environment while an
\* empty region variable left the region of the file in place.
UploadedToOverrideBucket ==
  /\ \E i \in DOMAIN uploads : uploads[i].bucket = "env:S3_BUCKET_NAME"
  /\ configFile.content[1].s3.bucket_name = "file:S3_BUCKET_NAME"
  /\ environ["S3_REGION"] = ""
  /\ Cfg.s3.region = "file:S3_REGION"

\* The exit status the stages alone determine
StageStatus == IF failed = "none" THEN 0 ELSE 1

\* C11: with notification disabled in the settings, or no bot token in the
\* environment, no messaging call is made, for the success outcome or for a
\* failure outcome, and the exit status is the one the stages determine.
NoMessagingWhenDisabled ==
  (config # <<>> /\ (~Cfg.telegram.enabled \/ environ["TELEGRAM_BOT_TOKEN"] = Absent)) =>
    /\ posts = <<>>
    /\ ~Has("post")
    /\ pc = "exited" => exitStatus = StageStatus

\* C11 witness: notification is enabled but no token is set; a failed run
\* called send_error, made no messaging call and exited 1.
SendErrorWithoutToken ==
  /\ pc = "exited"
  /\ config # <<>>
  /\ Cfg.telegram.enabled
  /\ environ["TELEGRAM_BOT_TOKEN"] = Absent
  /\ Has("send_error")
  /\ posts = <<>>
  /\ exitStatus = 1

\* C12: when the settings cannot be loaded (file missing or invalid) the
\* process exits non-zero in its first step: no stage runs, the temp workspace
\* is left as it was (not created), and no notification is attempted.
ConfigFailureStopsBeforePipeline ==
  [][configFile.status # "ok" =>
       /\ pc = "init"
       /\ pc' = "exited"
       /\ exitStatus' # 0
       /\ trace' = <<>>
       /\ posts' = <<>>
       /\ uploads' = <<>>
       /\ config' = <<>>
       /\ UNCHANGED <<tempDirExists, tempFiles, removed, mountFs>>]_vars

\* C12 witness: the settings file is missing, the process has exited 1 with
\* no step of Run made and no temp directory.
ExitedOnMissingConfig ==
  /\ pc = "exited"
  /\ configFile.status = "missing"
  /\ exitStatus = 1
  /\ trace = <<>>
  /\ ~tempDirExists

\* C13: with database.enabled = false the dump stage writes no dump file and
\* no credential file, runs no command and raises nothing; the run goes on to
\* the archive stage, whose archive holds the existing targets only.
DisabledDumpIsNoOp ==
  (config # <<>> /\ ~Cfg.database.enabled) =>
    /\ ~Has("mysqldump")
    /\ failed # "dump"
    /\ dump_file_path = None
    /\ CRED_FILE \notin tempFiles /\ DUMP_FILE \notin tempFiles
    /\ RemovePath(CRED_FILE) \notin removed
    /\ Has("dump") => (pc = "archive" \/ Has("archive"))
    /\ archive_file # <<>> =>
         /\ ~archive_file[1].has_dump
         /\ archive_file[1].members = SelectSeq(Cfg.targets, ExistingTarget)

\* C13 witness: database disabled, the archive was built from one existing
\* target and no dump, and the run exited 0.
ArchivedTargetsOnly ==
  /\ pc = "exited"
  /\ config # <<>>
  /\ exitStatus = 0
  /\ ~Cfg.database.enabled
  /\ archive_file # <<>>
  /\ ~archive_file[1].has_dump
  /\ Len(archive_file[1].members) = 1

\* C14: on a fully successful run with storage and notification enabled and
\* a (non-empty) bot token, exactly one object is uploaded, exactly one success
\* message is sent and no failure message; the success message comes after
\* the upload stage and before cleanup.
SuccessMessages == {i \in DOMAIN posts : posts[i].kind = "success"}
ErrorMessages == {i \in DOMAIN posts : posts[i].kind = "error"}

OneUploadOneSuccessMessage ==
  (/\ RunOver
   /\ failed = "none"
   /\ Cfg.s3.enabled
   /\ Cfg.telegram.enabled
   /\ environ["TELEGRAM_BOT_TOKEN"] \notin {Absent, ""}) =>
    /\ Len(uploads) = 1 /\ uploads[1].ok
    /\ Count("upload_file") = 1
    /\ Cardinality(SuccessMessages) = 1
    /\ ErrorMessages = {}
    /\ Count("send_success") = 1 /\ Count("send_error") = 0
    /\ Before("upload_file", "send_success")
    /\ Before("send_success", "post")
    /\ Before("post", "cleanup")
    /\ pc = "exited" => exitStatus = 0

\* C14 witness: database, storage and notification enabled, the run exited 0
\* with one upload and one delivered success message.
FullSuccessReported ==
  /\ pc = "exited"
  /\ exitStatus = 0
  /\ Has("mysqldump")
  /\ Len(uploads) = 1
  /\ Len(posts) = 1
  /\ posts[1].kind = "success"
  /\ posts[1].ok

\* C15: when the archive stage fails with an I/O error, send_error is called
\* once with the error text (and the message, when one is sent, carries it),
\* the upload is skipped, cleanup runs and the exit status is non-zero.
ArchiveFailureNotified ==
  (RunOver /\ failed = "archive") =>
    /\ errText = "OSError: archive"
    /\ Count("send_error") = 1
    /\ Before("send_error", "cleanup")
    /\ \A i \in DOMAIN posts : posts[i].kind = "error" /\ posts[i].text = errText
    /\ (Cfg.telegram.enabled /\ token \notin {Absent, ""}) => Len(posts) = 1
    /\ ~Has("upload") /\ uploads = <<>>
    /\ Count("cleanup") = 1
    /\ pc = "exited" => exitStatus # 0

\* C15 witness: the archive write failed and the run exited 1 after one
\* failure message with the error text.
ArchiveFailureMessageSent ==
  /\ pc = "exited"
  /\ failed = "archive"
  /\ exitStatus = 1
  /\ Len(posts) = 1
  /\ posts[1].text = "OSError: archive"

\* C16: with s3.enabled = false the upload stage makes no client and no
\* transfer call and reports no error; the run goes on to the success
\* notification and exits 0.
DisabledUploadIsNoOp ==
  (config # <<>> /\ ~Cfg.s3.enabled) =>
    /\ uploads = <<>>
    /\ ~Has("s3_client") /\ ~Has("upload_file")
    /\ failed # "upload"
    /\ Has("upload") => (pc = "send_success" \/ Has("send_success"))
    /\ Has("upload") => ~Has("send_error")
    /\ (pc = "exited" /\ Has("upload")) => exitStatus = 0

\* C16 witness: storage disabled, the run passed the upload stage, called
\* send_success and exited 0 with no upload.
ExitZeroWithoutUpload ==
  /\ pc = "exited"
  /\ config # <<>>
  /\ ~Cfg.s3.enabled
  /\ Has("upload")
  /\ Has("send_success")
  /\ uploads = <<>>
  /\ exitStatus = 0

\* C17: nothing outside the temp workspace is deleted. Every step leaves the
\* mount root and the settings file as they were, every path handed to
\* os.remove is a direct child of the temp workspace, and an entry leaves the
\* workspace only through such a removal.
DeletesOnlyInWorkspace ==
  [][/\ UNCHANGED <<mountFs, configFile>>
     /\ \A r \in removed' : r.dir = TEMP_DIR
     /\ \A f \in tempFiles \ tempFiles' : RemovePath(f) \in removed'
     /\ removed \subseteq removed']_vars

\* C17 witness: the credential file and the archive were removed, and the
\* mount root still holds both of its paths.
RemovedInsideWorkspaceOnly ==
  /\ pc = "exited"
  /\ [dir |-> TEMP_DIR, name |-> CRED_FILE] \in removed
  /\ [dir |-> TEMP_DIR, name |-> ARCHIVE_NAME] \in removed
  /\ mountFs = MountPaths

\* C18: each stage is attempted at most once per run: at most one dump
\* command, one archive, one client and one transfer call, with no retry.
StagesAttemptedOnce ==
  /\ Count("dump") <= 1 /\ Count("mysqldump") <= 1
  /\ Count("archive") <= 1
  /\ Count("upload") <= 1 /\ Count("s3_client") <= 1 /\ Count("upload_file") <= 1
  /\ Len(uploads) <= 1

\* C18 witness: the transfer failed and the run ended with that single
\* attempt.
UploadFailedAfterOneAttempt ==
  /\ pc = "exited"
  /\ failed = "upload"
  /\ Len(uploads) = 1
  /\ ~uploads[1].ok
  /\ Count("upload_file") = 1

\* C19: a run makes at most one call on the notifier, never both
\* send_success and send_error, and at most one messaging call.
AtMostOneNotifierCall ==
  /\ Count("send_success") + Count("send_error") <= 1
  /\ Len(posts) <= 1
  /\ Count("post") = Len(posts)

\* C19 witness: the dump command could not be started; the run called
\* send_error once, never send_success, and made one messaging call.
OnlySendErrorCalled ==
  /\ pc = "exited"
  /\ errText = "FileNotFoundError: mysqldump"
  /\ Count("send_error") = 1
  /\ Count("send_success") = 0
  /\ Len(posts) = 1

====
